---------------------------- MODULE Spec2Model ----------------------------
(***************************************************************************)
(* Model of the Teams presence tool: the Graph client wrapper              *)
(* (src/src/classes/Graph.ts) and the two refresh loops that drive it      *)
(* (src/src/index.ts and src/unnamed/part_001).                            *)
(*                                                                         *)
(* Strings that the code compares or converts are sequences of one-letter  *)
(* strings, so that toLowerCase is computed letter by letter.  A JSON      *)
(* object with optional keys is a record whose DOMAIN holds the keys that  *)
(* are given.  One step of the model runs the program from one await to    *)
(* the next.                                                               *)
(***************************************************************************)
EXTENDS Integers, Sequences, FiniteSets, TLC

VARIABLES
    env,        \* process.env: a record holding the variables that are set
    file,       \* accounts.json on disk
    directory,  \* the users the remote directory lists
    faults,     \* whether the remote service may reject a call
    variant,    \* which main() runs: "index" or "part_001"
    pc,         \* the await (or exit) the program is at
    clientID,   \* Graph.clientID
    accounts,   \* Graph.accounts: references into results
    results,    \* results.value of the last user listing answered, statuses included
    idx,        \* position of process()'s for loop in accounts
    i,          \* main()'s poll counter
    trace,      \* remote calls and delays started in the current cycle
    pending,    \* remote calls and delays started and not settled yet
    logged,     \* errors logged in the current cycle
    exitCode    \* {} while running, {code} after process.exit(code)

vars == <<env, file, directory, faults, variant, pc, clientID, accounts,
          results, idx, i, trace, pending, logged, exitCode>>

-----------------------------------------------------------------------------
(* Bounds of the model *)

MaxAccounts == 2

MaxRefreshMinutes == 1

-----------------------------------------------------------------------------
(* Strings *)

UpperChars == <<"A","B","C","D","E","F","G","H","I","J","K","L","M",
                "N","O","P","Q","R","S","T","U","V","W","X","Y","Z">>

LowerChars == <<"a","b","c","d","e","f","g","h","i","j","k","l","m",
                "n","o","p","q","r","s","t","u","v","w","x","y","z">>

LowerChar(c) ==
    IF \E k \in 1..Len(UpperChars) : UpperChars[k] = c
    THEN LowerChars[CHOOSE k \in 1..Len(UpperChars) : UpperChars[k] = c]
    ELSE c

toLowerCase(s) == [k \in 1..Len(s) |-> LowerChar(s[k])]

Has(obj, key) == key \in DOMAIN obj


-----------------------------------------------------------------------------
(* The inputs: environment, configuration file, remote directory *)

AzureVariables == {"AZURE_TENANT_ID", "AZURE_CLIENT_ID", "AZURE_CLIENT_SECRET"}

AzureValues ==
    [AZURE_TENANT_ID |-> "tenant", AZURE_CLIENT_ID |-> "client",
     AZURE_CLIENT_SECRET |-> "secret"]

\* The credentials that are set: all of them, or all but one.
AzureChoices ==
    { [v \in (AzureVariables \ missing) |-> AzureValues[v]] :
        missing \in {{}} \cup {{v} : v \in AzureVariables} }

DefaultStatusChoices ==
    { <<>>, [DEFAULT_STATUS |-> <<"A","W","A","Y">>] }

\* REFRESH_MINUTES as .env sets it (README), from no wait upwards.
RefreshMinutesChoices ==
    { [REFRESH_MINUTES |-> m] : m \in 0..MaxRefreshMinutes }

ProcessDelayChoices ==
    { <<>>, [PROCESS_DELAY |-> 0] }

EnvChoices ==
    { a @@ d @@ r @@ p : a \in AzureChoices, d \in DefaultStatusChoices,
                         r \in RefreshMinutesChoices, p \in ProcessDelayChoices }

\* The users GET /users answers with, before any status is attached.
DirectoryUsers ==
    << [id |-> <<"a","1">>, userPrincipalName |-> <<"A","l">>],
       [id |-> <<"B","2">>, userPrincipalName |-> <<"b","o">>] >>

\* Entries of accounts.json that differ in how they resolve: a user named
\* by username, the same user named by id, another user, and no user.
FairEntryPool ==
    { [username |-> <<"A","L">>],
      [label |-> <<"L">>, id |-> <<"A","1">>, status |-> <<"B","u","s","y">>],
      [id |-> <<"b","2">>,
       status |-> <<"D","o","N","o","t","D","i","s","t","u","r","b">>],
      [username |-> <<"z","z">>] }

\* Entries accounts.json may hold (README: label and status are optional,
\* one of username and id is required).
EntryPool ==
    FairEntryPool \cup
    { [label |-> <<"M">>, username |-> <<"B","o">>,
       status |-> <<"O","f","f","l","i","n","e">>],
      [label |-> <<"N">>, username |-> <<"z","y">>, id |-> <<"z","1">>],
      [id |-> <<"z","2">>] }

Configurations ==
    UNION { [1..n -> EntryPool] : n \in 0..MaxAccounts }

FileChoices ==
    { [state |-> "missing"], [state |-> "malformed"] }
        \cup { [state |-> "ok", targets |-> c] : c \in Configurations }

-----------------------------------------------------------------------------
(* Graph.ts *)

\* !process.env.X : unset (or empty) is falsy.
Unset(e, name) == ~Has(e, name)

\* The constructor without its check of AZURE_CLIENT_SECRET.
ConstructorWithoutSecretCheck(e) ==
    IF ~Has(e, "AZURE_TENANT_ID")
    THEN << [text |-> "AZURE_TENANT_ID not set in .env file."] >>
    ELSE IF ~Has(e, "AZURE_CLIENT_ID")
    THEN << [text |-> "AZURE_CLIENT_ID not set in .env file."] >>
    ELSE <<>>

\* The constructor: <<>> when it returns, <<message>> when it throws.
Constructor(e) ==
    IF Unset(e, "AZURE_TENANT_ID")
    THEN << [text |-> "AZURE_TENANT_ID not set in .env file."] >>
    ELSE IF Unset(e, "AZURE_CLIENT_ID")
    THEN << [text |-> "AZURE_CLIENT_ID not set in .env file."] >>
    ELSE IF Unset(e, "AZURE_CLIENT_SECRET")
    THEN << [text |-> "AZURE_CLIENT_SECRET not set in .env file."] >>
    ELSE <<>>

\* The match with the ids compared as they are written.
UserMatchesIdCaseSensitive(target, user) ==
    \/ /\ Has(target, "username")
       /\ target.username # <<>>
       /\ toLowerCase(user.userPrincipalName) = toLowerCase(target.username)
    \/ /\ Has(target, "id")
       /\ target.id # <<>>
       /\ user.id = target.id

\* target.username && user.userPrincipalName.toLowerCase() == target.username.toLowerCase()
\*   || target.id && user.id.toLowerCase() == target.id.toLowerCase()
UserMatches(target, user) ==
    \/ /\ Has(target, "username")
       /\ target.username # <<>>
       /\ toLowerCase(user.userPrincipalName) = toLowerCase(target.username)
    \/ /\ Has(target, "id")
       /\ target.id # <<>>
       /\ toLowerCase(user.id) = toLowerCase(target.id)

\* Array.prototype.find: the position of the first match, 0 for undefined.
Find(users, target) ==
    IF \E k \in 1..Len(users) : UserMatches(target, users[k])
    THEN CHOOSE k \in 1..Len(users) :
            /\ UserMatches(target, users[k])
            /\ \A j \in 1..(k-1) : ~UserMatches(target, users[j])
    ELSE 0

\* target.status ?? process.env.DEFAULT_STATUS ?? "Available"
DesiredStatus(target, e) ==
    IF Has(target, "status") THEN target.status
    ELSE IF Has(e, "DEFAULT_STATUS") THEN e.DEFAULT_STATUS
    ELSE <<"A","v","a","i","l","a","b","l","e">>

\* target.username ?? target.label ?? target.id
TargetNameUsernameFirst(target) ==
    IF Has(target, "username") THEN target.username
    ELSE IF Has(target, "label") THEN target.label
    ELSE IF Has(target, "id") THEN target.id
    ELSE <<"u","n","d","e","f","i","n","e","d">>

\* target.label ?? target.username ?? target.id
TargetName(target) ==
    IF Has(target, "label") THEN target.label
    ELSE IF Has(target, "username") THEN target.username
    ELSE IF Has(target, "id") THEN target.id
    ELSE <<"u","n","d","e","f","i","n","e","d">>

AccountNotFound(target) ==
    [text |-> "Account not found for ", name |-> TargetName(target)]

\* account.status = ... : the user object itself is written.
WithStatus(user, status) == [status |-> status] @@ user

\* One iteration of the for loop of loadAccounts: load holds results.value,
\* this.accounts and the message thrown (<<>> while none is); once a message
\* is thrown no later iteration runs.
LoadStep(load, target, e) ==
    IF load.error # <<>>
    THEN load
    ELSE LET account == Find(load.results, target) IN
         IF account # 0
         THEN [results  |-> [load.results EXCEPT ![account] =
                                WithStatus(@, DesiredStatus(target, e))],
               accounts |-> Append(load.accounts, account),
               error    |-> <<>>]
         ELSE [results  |-> load.results,
               accounts |-> load.accounts,
               error    |-> << AccountNotFound(target) >>]

TheOnly(S) == CHOOSE x \in S : TRUE

\* The for loop of loadAccounts over the first n targets, users being
\* results.value as listed and this.accounts being empty.  (The set
\* comprehension hands each iteration the value the previous ones left.)
RECURSIVE LoadLoop(_, _, _, _)
LoadLoop(targets, n, users, e) ==
    IF n = 0
    THEN [results |-> users, accounts |-> <<>>, error |-> <<>>]
    ELSE TheOnly({ LoadStep(load, targets[n], e) :
                      load \in { LoadLoop(targets, n - 1, users, e) } })

\* The user object the k-th element of this.accounts refers to.
Account(res, accs, k) == res[accs[k]]

\* setPresence without toLowerCase() in its switch.
PresenceOfCaseSensitive(status) ==
    IF status = <<"a","v","a","i","l","a","b","l","e">>
    THEN [availability |-> "Available", activity |-> "Available"]
    ELSE IF status = <<"a","w","a","y">>
    THEN [availability |-> "Away", activity |-> "Away"]
    ELSE IF status = <<"b","u","s","y">>
    THEN [availability |-> "Busy", activity |-> "InACall"]
    ELSE IF status = <<"d","o","n","o","t","d","i","s","t","u","r","b">>
    THEN [availability |-> "DoNotDisturb", activity |-> "Presenting"]
    ELSE [availability |-> "Available", activity |-> "Available"]

\* The switch of setPresence.
PresenceOf(status) ==
    LET s == toLowerCase(status) IN
    IF s = <<"a","v","a","i","l","a","b","l","e">>
    THEN [availability |-> "Available", activity |-> "Available"]
    ELSE IF s = <<"a","w","a","y">>
    THEN [availability |-> "Away", activity |-> "Away"]
    ELSE IF s = <<"b","u","s","y">>
    THEN [availability |-> "Busy", activity |-> "InACall"]
    ELSE IF s = <<"d","o","n","o","t","d","i","s","t","u","r","b">>
    THEN [availability |-> "DoNotDisturb", activity |-> "Presenting"]
    ELSE [availability |-> "Available", activity |-> "Available"]

\* The request setPresence posts.
SetPresenceCall(account, sessionId) ==
    [op |-> "setPresence", id |-> account.id,
     options |-> [sessionId |-> sessionId,
                  availability |-> PresenceOf(account.status).availability,
                  activity |-> PresenceOf(account.status).activity,
                  expirationDuration |-> "PT4H"]]

\* setPreferredPresence posting the pair of the account's status.
SetPreferredPresenceCallOfStatus(account) ==
    [op |-> "setUserPreferredPresence", id |-> account.id,
     options |-> [availability |-> PresenceOf(account.status).availability,
                  activity |-> PresenceOf(account.status).activity]]

\* The request setPreferredPresence posts.
SetPreferredPresenceCall(account) ==
    [op |-> "setUserPreferredPresence", id |-> account.id,
     options |-> [availability |-> "Available", activity |-> "Available"]]

\* The request listPresence posts.
ListPresenceCall(res, accs) ==
    [op |-> "getPresencesByUserId",
     ids |-> [k \in 1..Len(accs) |-> Account(res, accs, k).id]]

ListUsersCall == [op |-> "listUsers"]

Delay(ms) == [op |-> "delay", ms |-> ms]

\* process.env.PROCESS_DELAY ?? 200
ProcessDelay == IF Has(env, "PROCESS_DELAY") THEN env.PROCESS_DELAY ELSE 200

\* process.env.REFRESH_MINUTES ?? 5
RefreshMinutes == IF Has(env, "REFRESH_MINUTES") THEN env.REFRESH_MINUTES ELSE 5

\* What a remote call can answer.
Outcomes == IF faults THEN {"ok", "error"} ELSE {"ok"}

RemoteError(api) == [text |-> "GraphError", api |-> api]

\* Logging.error as called by process(), by main()'s catch, by main().catch
Logged(by, error) == [by |-> by, error |-> error]

-----------------------------------------------------------------------------
(* The state machine *)

Init ==
    /\ env \in EnvChoices
    /\ file \in FileChoices
    /\ directory = DirectoryUsers
    /\ faults \in BOOLEAN
    /\ variant \in {"index", "part_001"}
    /\ pc = "start"
    /\ clientID = ""
    /\ accounts = <<>>
    /\ results = <<>>
    /\ idx = 0
    /\ i = 0
    /\ trace = <<>>
    /\ pending = {}
    /\ logged = <<>>
    /\ exitCode = {}

inputs == <<env, file, directory, faults, variant>>

\* What is still outstanding once the awaited operation has settled.
Settled(operation) == pending \ {operation}

\* The for loop of main() polling only twice a minute.
PollLoopTwiceAMinute(n, tr, rest) ==
    IF n < RefreshMinutes * 2
    THEN /\ pc' = "listPresence"
         /\ i' = n
         /\ trace' = Append(tr, ListPresenceCall(results', accounts'))
         /\ pending' = rest \cup {ListPresenceCall(results', accounts')}
    ELSE /\ pc' = "process"
         /\ i' = 0
         /\ trace' = tr
         /\ pending' = rest

\* index.ts: the for loop of main() at counter n, with tr the trace so far
\* and rest the operations still outstanding; listPresence reads
\* this.accounts as the step has left it.
PollLoop(n, tr, rest) ==
    IF n < RefreshMinutes * 3
    THEN /\ pc' = "listPresence"
         /\ i' = n
         /\ trace' = Append(tr, ListPresenceCall(results', accounts'))
         /\ pending' = rest \cup {ListPresenceCall(results', accounts')}
    ELSE /\ pc' = "process"
         /\ i' = 0
         /\ trace' = tr
         /\ pending' = rest

\* What main() does when process() has returned.
ReturnFromProcess(tr, rest) ==
    IF variant = "index"
    THEN PollLoop(0, tr, rest)
    ELSE /\ pc' = "refreshDelay"
         /\ i' = 0
         /\ trace' = Append(tr, Delay(1000 * 60 * RefreshMinutes))
         /\ pending' = rest \cup {Delay(1000 * 60 * RefreshMinutes)}

\* main() up to the loop: new Graph(), and main().catch when it throws.
Start ==
    /\ pc = "start"
    /\ IF Constructor(env) # <<>>
       THEN /\ logged' = << Logged("main.catch", Constructor(env)[1]) >>
            /\ exitCode' = {1}
            /\ pc' = "exited"
            /\ UNCHANGED clientID
       ELSE /\ clientID' = env.AZURE_CLIENT_ID
            /\ pc' = "process"
            /\ UNCHANGED <<logged, exitCode>>
    /\ UNCHANGED <<inputs, accounts, results, idx, i, trace, pending>>

\* process() loading the accounts only while it holds none.
ProcessLoadsOnce ==
    /\ pc = "process"
    /\ IF accounts # <<>>
       THEN /\ logged' = <<>>
            /\ trace' = << Delay(ProcessDelay) >>
            /\ pending' = pending \cup {Delay(ProcessDelay)}
            /\ pc' = "applyDelay"
            /\ i' = 0
            /\ UNCHANGED <<accounts, results>>
       ELSE IF file.state = "missing"
       THEN /\ logged' = << Logged("process", [text |-> "accounts.json not found."]) >>
            /\ UNCHANGED <<accounts, results>>
            /\ ReturnFromProcess(<<>>, pending)
       ELSE IF file.state = "malformed"
       THEN /\ logged' = << Logged("process", [text |-> "SyntaxError"]) >>
            /\ UNCHANGED <<accounts, results>>
            /\ ReturnFromProcess(<<>>, pending)
       ELSE /\ accounts' = <<>>
            /\ UNCHANGED results
            /\ logged' = <<>>
            /\ trace' = << ListUsersCall >>
            /\ pending' = pending \cup {ListUsersCall}
            /\ pc' = "listUsers"
            /\ i' = 0
    /\ UNCHANGED <<inputs, clientID, idx, exitCode>>

\* The call of process(), up to the first await of loadAccounts.
Process ==
    /\ pc = "process"
    /\ IF file.state = "missing"
       THEN /\ logged' = << Logged("process", [text |-> "accounts.json not found."]) >>
            /\ UNCHANGED <<accounts, results>>
            /\ ReturnFromProcess(<<>>, pending)
       ELSE IF file.state = "malformed"
       THEN /\ logged' = << Logged("process", [text |-> "SyntaxError"]) >>
            /\ UNCHANGED <<accounts, results>>
            /\ ReturnFromProcess(<<>>, pending)
       ELSE /\ accounts' = <<>>
            /\ UNCHANGED results
            /\ logged' = <<>>
            /\ trace' = << ListUsersCall >>
            /\ pending' = pending \cup {ListUsersCall}
            /\ pc' = "listUsers"
            /\ i' = 0
    /\ UNCHANGED <<inputs, clientID, idx, exitCode>>

\* GET /users settles: the rest of loadAccounts, and process() up to its
\* first delay.
ListUsers ==
    /\ pc = "listUsers"
    /\ \E outcome \in Outcomes :
         IF outcome = "error"
         THEN /\ logged' = Append(logged, Logged("process", RemoteError("listUsers")))
              /\ UNCHANGED <<accounts, results>>
              /\ ReturnFromProcess(trace, Settled(ListUsersCall))
         ELSE \E load \in { LoadLoop(file.targets, Len(file.targets), directory, env) } :
              /\ accounts' = load.accounts
              /\ results' = load.results
              /\ IF load.error # <<>>
                 THEN /\ logged' = Append(logged, Logged("process", load.error[1]))
                      /\ ReturnFromProcess(trace, Settled(ListUsersCall))
                 ELSE /\ pc' = "applyDelay"
                      /\ trace' = Append(trace, Delay(ProcessDelay))
                      /\ pending' = Settled(ListUsersCall) \cup {Delay(ProcessDelay)}
                      /\ UNCHANGED <<logged, i>>
    /\ UNCHANGED <<inputs, clientID, idx, exitCode>>

\* The for loop of process() ending one account early.
ApplyDelaySkipsLast ==
    /\ pc = "applyDelay"
    /\ UNCHANGED <<inputs, clientID, accounts, results, logged, exitCode>>
    /\ IF idx < Len(accounts) - 1
       THEN /\ idx' = idx + 1
            /\ pc' = "setPreferredPresence"
            /\ trace' = Append(trace,
                   SetPreferredPresenceCall(Account(results, accounts, idx + 1)))
            /\ pending' = Settled(Delay(ProcessDelay)) \cup
                   {SetPreferredPresenceCall(Account(results, accounts, idx + 1))}
            /\ UNCHANGED i
       ELSE /\ idx' = 0
            /\ ReturnFromProcess(trace, Settled(Delay(ProcessDelay)))

\* process() calling setPreferredPresence without await: setPresence is
\* started while the user-preferred request is still outstanding.
ApplyDelayPreferredNotAwaited ==
    /\ pc = "applyDelay"
    /\ UNCHANGED <<inputs, clientID, accounts, results, logged, exitCode>>
    /\ IF idx < Len(accounts)
       THEN /\ idx' = idx + 1
            /\ pc' = "setPresence"
            /\ trace' = trace \o
                   << SetPreferredPresenceCall(Account(results, accounts, idx + 1)),
                      SetPresenceCall(Account(results, accounts, idx + 1), clientID) >>
            /\ pending' = Settled(Delay(ProcessDelay)) \cup
                   { SetPreferredPresenceCall(Account(results, accounts, idx + 1)),
                     SetPresenceCall(Account(results, accounts, idx + 1), clientID) }
            /\ UNCHANGED i
       ELSE /\ idx' = 0
            /\ ReturnFromProcess(trace, Settled(Delay(ProcessDelay)))

\* A delay of process() elapses: the next account, or the end of process().
ApplyDelay ==
    /\ pc = "applyDelay"
    /\ UNCHANGED <<inputs, clientID, accounts, results, logged, exitCode>>
    /\ IF idx < Len(accounts)
       THEN /\ idx' = idx + 1
            /\ pc' = "setPreferredPresence"
            /\ trace' = Append(trace,
                   SetPreferredPresenceCall(Account(results, accounts, idx + 1)))
            /\ pending' = Settled(Delay(ProcessDelay)) \cup
                   {SetPreferredPresenceCall(Account(results, accounts, idx + 1))}
            /\ UNCHANGED i
       ELSE /\ idx' = 0
            /\ ReturnFromProcess(trace, Settled(Delay(ProcessDelay)))

\* process() with setPreferredPresence in a try/catch of its own: its
\* failure is logged and setPresence is called all the same.
SetPreferredPresenceFailureIgnored ==
    /\ pc = "setPreferredPresence"
    /\ UNCHANGED <<inputs, clientID, accounts, results, exitCode>>
    /\ \E outcome \in Outcomes :
         /\ logged' = IF outcome = "error"
                      THEN Append(logged,
                              Logged("process", RemoteError("setUserPreferredPresence")))
                      ELSE logged
         /\ pc' = "setPresence"
         /\ trace' = Append(trace,
                SetPresenceCall(Account(results, accounts, idx), clientID))
         /\ pending' =
                Settled(SetPreferredPresenceCall(Account(results, accounts, idx)))
                   \cup {SetPresenceCall(Account(results, accounts, idx), clientID)}
         /\ UNCHANGED <<idx, i>>

\* POST setUserPreferredPresence settles.
SetPreferredPresence ==
    /\ pc = "setPreferredPresence"
    /\ UNCHANGED <<inputs, clientID, accounts, results, exitCode>>
    /\ \E outcome \in Outcomes :
         IF outcome = "error"
         THEN /\ logged' = Append(logged,
                    Logged("process", RemoteError("setUserPreferredPresence")))
              /\ idx' = 0
              /\ ReturnFromProcess(trace,
                     Settled(SetPreferredPresenceCall(Account(results, accounts, idx))))
         ELSE /\ pc' = "setPresence"
              /\ trace' = Append(trace,
                     SetPresenceCall(Account(results, accounts, idx), clientID))
              /\ pending' =
                     Settled(SetPreferredPresenceCall(Account(results, accounts, idx)))
                        \cup {SetPresenceCall(Account(results, accounts, idx), clientID)}
              /\ UNCHANGED <<logged, idx, i>>

\* process() without the try/catch around its two requests: the rejection
\* reaches main(), its catch block in index.ts and main().catch in part_001.
SetPresenceRethrows ==
    /\ pc = "setPresence"
    /\ UNCHANGED <<inputs, clientID, accounts, results>>
    /\ \E outcome \in Outcomes :
         IF outcome = "error" /\ variant = "index"
         THEN /\ logged' = Append(logged, Logged("main", RemoteError("setPresence")))
              /\ idx' = 0
              /\ i' = 0
              /\ pc' = "backoff"
              /\ trace' = Append(trace, Delay(1000 * 30))
              /\ pending' =
                     Settled(SetPresenceCall(Account(results, accounts, idx), clientID))
                        \cup {Delay(1000 * 30)}
              /\ UNCHANGED exitCode
         ELSE IF outcome = "error"
         THEN /\ logged' = Append(logged, Logged("main.catch", RemoteError("setPresence")))
              /\ idx' = 0
              /\ pc' = "exited"
              /\ exitCode' = {1}
              /\ pending' =
                     Settled(SetPresenceCall(Account(results, accounts, idx), clientID))
              /\ UNCHANGED <<i, trace>>
         ELSE /\ pc' = "applyDelay"
              /\ trace' = Append(trace, Delay(ProcessDelay))
              /\ pending' =
                     Settled(SetPresenceCall(Account(results, accounts, idx), clientID))
                        \cup {Delay(ProcessDelay)}
              /\ UNCHANGED <<logged, idx, i, exitCode>>

\* process() with a try/catch that logs and carries on with the next account.
SetPresenceFailureIsolated ==
    /\ pc = "setPresence"
    /\ UNCHANGED <<inputs, clientID, accounts, results, exitCode>>
    /\ \E outcome \in Outcomes :
         /\ logged' = IF outcome = "error"
                      THEN Append(logged, Logged("process", RemoteError("setPresence")))
                      ELSE logged
         /\ pc' = "applyDelay"
         /\ trace' = Append(trace, Delay(ProcessDelay))
         /\ pending' =
                Settled(SetPresenceCall(Account(results, accounts, idx), clientID))
                   \cup {Delay(ProcessDelay)}
         /\ UNCHANGED <<idx, i>>

\* process() with its delay outside the for loop: the next account follows
\* at once.
SetPresenceWithoutDelay ==
    /\ pc = "setPresence"
    /\ UNCHANGED <<inputs, clientID, accounts, results, exitCode>>
    /\ \E outcome \in Outcomes :
         IF outcome = "error"
         THEN /\ logged' = Append(logged, Logged("process", RemoteError("setPresence")))
              /\ idx' = 0
              /\ ReturnFromProcess(trace,
                     Settled(SetPresenceCall(Account(results, accounts, idx), clientID)))
         ELSE IF idx < Len(accounts)
         THEN /\ idx' = idx + 1
              /\ pc' = "setPreferredPresence"
              /\ trace' = Append(trace,
                     SetPreferredPresenceCall(Account(results, accounts, idx + 1)))
              /\ pending' =
                     Settled(SetPresenceCall(Account(results, accounts, idx), clientID))
                        \cup {SetPreferredPresenceCall(Account(results, accounts, idx + 1))}
              /\ UNCHANGED <<logged, i>>
         ELSE /\ idx' = 0
              /\ UNCHANGED logged
              /\ ReturnFromProcess(trace,
                     Settled(SetPresenceCall(Account(results, accounts, idx), clientID)))

\* POST setPresence settles.
SetPresence ==
    /\ pc = "setPresence"
    /\ UNCHANGED <<inputs, clientID, accounts, results, exitCode>>
    /\ \E outcome \in Outcomes :
         IF outcome = "error"
         THEN /\ logged' = Append(logged, Logged("process", RemoteError("setPresence")))
              /\ idx' = 0
              /\ ReturnFromProcess(trace,
                     Settled(SetPresenceCall(Account(results, accounts, idx), clientID)))
         ELSE /\ pc' = "applyDelay"
              /\ trace' = Append(trace, Delay(ProcessDelay))
              /\ pending' =
                     Settled(SetPresenceCall(Account(results, accounts, idx), clientID))
                        \cup {Delay(ProcessDelay)}
              /\ UNCHANGED <<logged, idx, i>>

\* The poll without the try/catch of main(): a rejection reaches main().catch.
ListPresenceUncaught ==
    /\ pc = "listPresence"
    /\ \E outcome \in Outcomes :
         IF outcome = "error"
         THEN /\ logged' = Append(logged,
                    Logged("main.catch", RemoteError("getPresencesByUserId")))
              /\ pc' = "exited"
              /\ exitCode' = {1}
              /\ i' = 0
              /\ pending' = Settled(ListPresenceCall(results, accounts))
              /\ UNCHANGED trace
         ELSE /\ pc' = "pollDelay"
              /\ trace' = Append(trace, Delay(1000 * 20))
              /\ pending' = Settled(ListPresenceCall(results, accounts))
                                \cup {Delay(1000 * 20)}
              /\ UNCHANGED <<logged, i, exitCode>>
    /\ UNCHANGED <<inputs, clientID, accounts, results, idx>>

\* index.ts: POST getPresencesByUserId settles.
ListPresence ==
    /\ pc = "listPresence"
    /\ \E outcome \in Outcomes :
         IF outcome = "error"
         THEN /\ logged' = Append(logged, Logged("main", RemoteError("getPresencesByUserId")))
              /\ pc' = "backoff"
              /\ i' = 0
              /\ trace' = Append(trace, Delay(1000 * 30))
              /\ pending' = Settled(ListPresenceCall(results, accounts))
                                \cup {Delay(1000 * 30)}
         ELSE /\ pc' = "pollDelay"
              /\ trace' = Append(trace, Delay(1000 * 20))
              /\ pending' = Settled(ListPresenceCall(results, accounts))
                                \cup {Delay(1000 * 20)}
              /\ UNCHANGED <<logged, i>>
    /\ UNCHANGED <<inputs, clientID, accounts, results, idx, exitCode>>

\* index.ts: the 20 seconds after a poll elapse.
PollDelay ==
    /\ pc = "pollDelay"
    /\ UNCHANGED <<inputs, clientID, accounts, results, idx, logged, exitCode>>
    /\ PollLoop(i + 1, trace, Settled(Delay(1000 * 20)))

\* index.ts: the 30 seconds of the catch block elapse.
Backoff ==
    /\ pc = "backoff"
    /\ pc' = "process"
    /\ pending' = Settled(Delay(1000 * 30))
    /\ UNCHANGED <<inputs, clientID, accounts, results, idx, i, trace, logged, exitCode>>

\* part_001: the delay between two calls of process() elapses.
RefreshDelay ==
    /\ pc = "refreshDelay"
    /\ pc' = "process"
    /\ pending' = Settled(Delay(1000 * 60 * RefreshMinutes))
    /\ UNCHANGED <<inputs, clientID, accounts, results, idx, i, trace, logged, exitCode>>

Next ==
    \/ Start
    \/ Process
    \/ ListUsers
    \/ ApplyDelay
    \/ SetPreferredPresence
    \/ SetPresence
    \/ ListPresence
    \/ PollDelay
    \/ Backoff
    \/ RefreshDelay

Spec == Init /\ [][Next]_vars

\* The progress properties are about the control flow, which the strings of
\* the statuses and the length of the delays do not steer: their
\* specification leaves DEFAULT_STATUS and PROCESS_DELAY unset and draws the
\* entries of accounts.json from FairEntryPool.
FairInit ==
    /\ Init
    /\ ~Has(env, "DEFAULT_STATUS")
    /\ ~Has(env, "PROCESS_DELAY")
    /\ file.state = "ok" =>
          \A k \in 1..Len(file.targets) : file.targets[k] \in FairEntryPool

\* Every await settles: the event loop always runs the continuation.
FairSpec == FairInit /\ [][Next]_vars /\ WF_vars(Next)

TypeOK ==
    /\ pc \in {"start", "process", "listUsers", "applyDelay", "setPreferredPresence",
               "setPresence", "listPresence", "pollDelay", "backoff", "refreshDelay",
               "exited"}
    /\ idx \in 0..Len(accounts)
    /\ i \in 0..(RefreshMinutes * 3)
    /\ exitCode \subseteq {1}
    /\ IsFiniteSet(pending)

-----------------------------------------------------------------------------
(* Vocabulary of the properties *)

\* The lower-case letter of every upper-case letter, as toLowerCase gives it.
UpperToLower ==
    [c \in {UpperChars[k] : k \in 1..Len(UpperChars)} |-> LowerChar(c)]

Lowered(c) == IF c \in DOMAIN UpperToLower THEN UpperToLower[c] ELSE c

\* Strings a and b are equal when both are written in lower case.
EqualsIgnoringCase(a, b) ==
    /\ Len(a) = Len(b)
    /\ \A k \in 1..Len(a) : Lowered(a[k]) = Lowered(b[k])

LoopEntered == pc \notin {"start", "exited"}

Last(seq) == seq[Len(seq)]

\* The setPresence request that is awaited, when pc = "setPresence".
PendingSetPresence == Last(trace)

\* The user listing of the current cycle was answered and the entries were
\* matched against it.
UsersListed ==
    /\ trace # <<>>
    /\ trace[1] = ListUsersCall
    /\ pc # "listUsers"
    /\ ~(logged # <<>> /\ logged[1].error = RemoteError("listUsers"))

\* Entry t names user u by one of its keys, as the specification words it.
EntryNames(t, u) ==
    \/ Has(t, "username") /\ EqualsIgnoringCase(t.username, u.userPrincipalName)
    \/ Has(t, "id") /\ EqualsIgnoringCase(t.id, u.id)

Resolvable(t) == \E n \in 1..Len(directory) : EntryNames(t, directory[n])

\* The first entry of the configuration that names no listed user (0: none).
FirstUnresolvable ==
    LET unresolvable == {k \in 1..Len(file.targets) : ~Resolvable(file.targets[k])}
    IN  IF unresolvable = {} THEN 0
        ELSE CHOOSE k \in unresolvable : \A j \in unresolvable : k <= j

-----------------------------------------------------------------------------
(* C1 *)

StatusPair(a, b) == [availability |-> a, activity |-> b]

\* The pair the specification assigns to a status string.
SpecifiedPair(status) ==
    IF EqualsIgnoringCase(status, <<"a","v","a","i","l","a","b","l","e">>)
    THEN StatusPair("Available", "Available")
    ELSE IF EqualsIgnoringCase(status, <<"a","w","a","y">>)
    THEN StatusPair("Away", "Away")
    ELSE IF EqualsIgnoringCase(status, <<"b","u","s","y">>)
    THEN StatusPair("Busy", "InACall")
    ELSE IF EqualsIgnoringCase(status, <<"d","o","n","o","t","d","i","s","t","u","r","b">>)
    THEN StatusPair("DoNotDisturb", "Presenting")
    ELSE StatusPair("Available", "Available")

\* C1: every setPresence request carries the (availability, activity) pair
\* that the account's status string determines when compared without regard
\* to case (available, away, busy -> Busy/InACall, donotdisturb ->
\* DoNotDisturb/Presenting, anything else -> Available/Available), and the
\* fixed expiration PT4H.
C1_SetPresenceMapping ==
    pc = "setPresence" =>
        LET status == Account(results, accounts, idx).status
            sent   == PendingSetPresence.options
        IN  /\ PendingSetPresence.op = "setPresence"
            /\ StatusPair(sent.availability, sent.activity) = SpecifiedPair(status)
            /\ sent.expirationDuration = "PT4H"

\* A DoNotDisturb request for a status written in mixed case.
C1_Witness ==
    /\ pc = "setPresence"
    /\ Account(results, accounts, idx).status
          = <<"D","o","N","o","t","D","i","s","t","u","r","b">>
    /\ PendingSetPresence.options.activity = "Presenting"
    /\ PendingSetPresence.options.expirationDuration = "PT4H"

-----------------------------------------------------------------------------
(* C5 *)

CredentialsMissing == \E v \in AzureVariables : v \notin DOMAIN env

\* C5: when one of AZURE_TENANT_ID, AZURE_CLIENT_ID, AZURE_CLIENT_SECRET is
\* unset, the only thing the program does is exit with code 1: the loop is
\* never entered, no remote call or delay is started and no account is held.
C5_MissingCredentialsExit ==
    (CredentialsMissing /\ pc # "start") =>
        /\ pc = "exited"
        /\ exitCode = {1}
        /\ trace = <<>>
        /\ accounts = <<>>
        /\ Len(logged) = 1
        /\ logged[1].by = "main.catch"

\* The exit taken because the client secret is unset.
C5_Witness ==
    /\ pc = "exited"
    /\ exitCode = {1}
    /\ "AZURE_CLIENT_SECRET" \notin DOMAIN env
    /\ trace = <<>>

-----------------------------------------------------------------------------
(* C8 *)

\* The name the specification gives an entry in the error message.
SpecifiedName(t) ==
    IF "label" \in DOMAIN t THEN t.label
    ELSE IF "username" \in DOMAIN t THEN t.username
    ELSE t.id

\* C8: when the users were listed and some entry names none of them,
\* loadAccounts has failed with the account-not-found message naming the
\* first such entry (its label, else its username, else its id), logged by
\* process(), and no entry from that one on has been resolved.
C8_AccountNotFound ==
    LET k == FirstUnresolvable IN
    (file.state = "ok" /\ UsersListed /\ k # 0) =>
        /\ logged # <<>>
        /\ logged[1] = [by |-> "process",
                        error |-> [text |-> "Account not found for ",
                                   name |-> SpecifiedName(file.targets[k])]]
        /\ Len(accounts) = k - 1

\* A failure at the second entry, which has a label, a username and an id.
C8_Witness ==
    /\ file.state = "ok"
    /\ UsersListed
    /\ FirstUnresolvable = 2
    /\ Has(file.targets[2], "label")
    /\ Has(file.targets[2], "username")
    /\ logged[1].error.name = file.targets[2].label
    /\ Len(accounts) = 1

-----------------------------------------------------------------------------
(* C10 *)

ByUsernameOnly(t) == Has(t, "username") /\ ~Has(t, "id")

ByIdOnly(t) == Has(t, "id") /\ ~Has(t, "username")

\* Entries j and k name the same listed user, j by username and k by id.
SameUserByDifferentKeys(j, k) ==
    /\ ByUsernameOnly(file.targets[j])
    /\ ByIdOnly(file.targets[k])
    /\ \E n \in 1..Len(directory) :
          /\ EqualsIgnoringCase(file.targets[j].username, directory[n].userPrincipalName)
          /\ EqualsIgnoringCase(file.targets[k].id, directory[n].id)

\* C10: when the users were listed, every entry names a listed user, and two
\* entries name the same user, one by username and one by id (in either
\* order, in any letter case), the load has succeeded with one account per
\* entry and the two accounts carry the same remote id.
C10_SameUserSameId ==
    (file.state = "ok" /\ UsersListed /\ FirstUnresolvable = 0) =>
        \A j, k \in 1..Len(file.targets) :
            SameUserByDifferentKeys(j, k) =>
                /\ Len(accounts) = Len(file.targets)
                /\ ~(\E n \in 1..Len(logged) : Has(logged[n].error, "name"))
                /\ Account(results, accounts, j).id = Account(results, accounts, k).id

\* The id entry comes first and both keys differ in case from the directory's.
C10_Witness ==
    /\ file.state = "ok"
    /\ UsersListed
    /\ Len(file.targets) = 2
    /\ SameUserByDifferentKeys(2, 1)
    /\ file.targets[1].id # directory[1].id
    /\ file.targets[2].username # directory[1].userPrincipalName
    /\ Len(accounts) = 2
    /\ Account(results, accounts, 1).id = directory[1].id
    /\ Account(results, accounts, 2).id = directory[1].id

-----------------------------------------------------------------------------
(* C2, C3, C4, C9: statements the code does not meet *)

\* C2: in the loop of index.ts, the step in which a set-presence call of
\* Applying fails is followed by the 30 second backoff delay, not by a poll
\* (and not by the exit of the process).
C2_FailureThenBackoff ==
    [][ ( /\ variant = "index"
          /\ pc \in {"setPreferredPresence", "setPresence"}
          /\ Len(logged') > Len(logged) )
        => ( /\ pc' = "backoff"
             /\ Last(trace') = Delay(1000 * 30)
             /\ exitCode' = {} ) ]_vars

\* C3: the account list is empty or holds, in order, one account for each
\* entry of the configuration, the account that entry names.
C3_NoPartialAccounts ==
    \/ accounts = <<>>
    \/ /\ file.state = "ok"
       /\ Len(accounts) = Len(file.targets)
       /\ \A k \in 1..Len(accounts) :
             EntryNames(file.targets[k], Account(results, accounts, k))

\* C4: the call of process() that finds accounts.json missing ends with the
\* process exiting with code 1.
C4_MissingConfigExits ==
    [][ (pc = "process" /\ file.state = "missing")
        => (pc' = "exited" /\ exitCode' = {1}) ]_vars

\* The status the specification gives the account of an entry.
SpecifiedStatus(t) ==
    IF "status" \in DOMAIN t THEN t.status
    ELSE IF "DEFAULT_STATUS" \in DOMAIN env THEN env.DEFAULT_STATUS
    ELSE <<"A","v","a","i","l","a","b","l","e">>

LoadSucceeded ==
    /\ file.state = "ok"
    /\ UsersListed
    /\ ~(\E n \in 1..Len(logged) : Has(logged[n].error, "name"))

\* C9: after a successful load the account of every entry carries that
\* entry's own status, or the default when the entry gives none.
C9_StatusPerEntry ==
    LoadSucceeded =>
        \A k \in 1..Len(file.targets) :
            Account(results, accounts, k).status = SpecifiedStatus(file.targets[k])

-----------------------------------------------------------------------------
(* C6 *)

\* C6: once the loop is entered the process never exits, and from every
\* state of the loop a call of process() is reached again, whatever fails.
C6_CyclesForever ==
    /\ [](LoopEntered => exitCode = {})
    /\ (LoopEntered /\ pc # "process") ~> (pc = "process")

\* After a failed poll in the loop of index.ts, waiting for the next cycle.
C6_Witness ==
    /\ pc = "backoff"
    /\ exitCode = {}
    /\ logged # <<>>
    /\ Last(logged).by = "main"

-----------------------------------------------------------------------------
(* C7 *)

\* No call is rejected, the configuration is read and every entry resolves.
FailureFree ==
    /\ LoopEntered
    /\ ~faults
    /\ file.state = "ok"
    /\ FirstUnresolvable = 0

SetPresenceCalls == SelectSeq(trace, LAMBDA e : e.op = "setPresence")

\* Process() has gone through all of its accounts in the current cycle.
ApplyingDone ==
    /\ UsersListed
    /\ pc \in {"process", "listPresence", "pollDelay", "backoff", "refreshDelay"}

\* The setPresence request of the k-th entry is awaited: it is addressed to
\* the user the entry names and carries the pair of the account's desired
\* status, which is the entry's own (or the default) when no other entry
\* names the same user.
Reasserting(k) ==
    /\ pc = "setPresence"
    /\ idx = k
    /\ EntryNames(file.targets[k], Account(results, accounts, k))
    /\ PendingSetPresence.id = Account(results, accounts, k).id
    /\ StatusPair(PendingSetPresence.options.availability,
                  PendingSetPresence.options.activity)
          = SpecifiedPair(Account(results, accounts, k).status)
    /\ (\A j \in 1..Len(file.targets) : accounts[j] = accounts[k] => j = k)
          => Account(results, accounts, k).status = SpecifiedStatus(file.targets[k])

\* C7: in a failure-free run every entry of the configuration has its
\* presence re-asserted again and again, and a cycle issues exactly one
\* setPresence request per entry, in configuration order.
C7_ReassertedEveryCycle ==
    /\ [](FailureFree =>
            /\ Len(SetPresenceCalls) <= Len(file.targets)
            /\ \A k \in 1..Len(SetPresenceCalls) :
                  SetPresenceCalls[k] =
                      SetPresenceCall(Account(results, accounts, k), clientID)
            /\ ApplyingDone => Len(SetPresenceCalls) = Len(file.targets))
    /\ \A k \in 1..MaxAccounts :
          (FailureFree /\ k <= Len(file.targets)) ~> Reasserting(k)

\* The second of two entries is being re-asserted with its own status.
C7_Witness ==
    /\ FailureFree
    /\ Len(file.targets) = 2
    /\ Reasserting(2)
    /\ Len(SetPresenceCalls) = 2
    /\ Account(results, accounts, 2).status = <<"B","u","s","y">>

-----------------------------------------------------------------------------
(* C11: a statement the code does not meet *)

\* A request of the Applying phase.
ApplyingCall(e) == e.op \in {"setUserPreferredPresence", "setPresence"}

\* C11: no two remote calls of Applying are started one right after the
\* other: what is started next after a request of Applying is not another
\* request of Applying (it is the delay of PROCESS_DELAY milliseconds).
C11_DelayBetweenCalls ==
    \A k \in 1..(Len(trace) - 1) :
        ApplyingCall(trace[k]) => ~ApplyingCall(trace[k + 1])

-----------------------------------------------------------------------------
(* C12 *)

\* The position in the trace of the first presence poll (past its end: none).
FirstPoll ==
    IF \E k \in 1..Len(trace) : trace[k].op = "getPresencesByUserId"
    THEN CHOOSE k \in 1..Len(trace) :
            /\ trace[k].op = "getPresencesByUserId"
            /\ \A j \in 1..(k - 1) : trace[j].op # "getPresencesByUserId"
    ELSE Len(trace) + 1

\* What process() has started in the current cycle: in the loop of index.ts
\* what precedes the first poll, in the loop of part_001 what precedes the
\* delay between two calls of process().
ProcessTrace ==
    IF variant = "index"
    THEN SubSeq(trace, 1, FirstPoll - 1)
    ELSE IF pc \in {"refreshDelay", "process"} /\ trace # <<>>
    THEN SubSeq(trace, 1, Len(trace) - 1)
    ELSE trace

\* The milliseconds of the delays among the first n elements of seq.
RECURSIVE EnforcedDelay(_, _)
EnforcedDelay(seq, n) ==
    IF n = 0 THEN 0
    ELSE EnforcedDelay(seq, n - 1) + (IF seq[n].op = "delay" THEN seq[n].ms ELSE 0)

\* The inter-call delay D as configured, 200 ms when it is not.
SpecifiedDelay ==
    IF "PROCESS_DELAY" \in DOMAIN env THEN env.PROCESS_DELAY ELSE 200

\* C12: when a failure-free run of process() over the N entries of the
\* configuration has completed, the delays it has waited for add up to at
\* least N times the inter-call delay D.
C12_EnforcedDelay ==
    (ApplyingDone /\ FailureFree) =>
        LET started == ProcessTrace IN
        /\ Len(accounts) = Len(file.targets)
        /\ EnforcedDelay(started, Len(started))
              >= Len(file.targets) * SpecifiedDelay

\* Two accounts and the default delay of 200 ms: at least 400 ms.
C12_Witness ==
    /\ FailureFree
    /\ ApplyingDone
    /\ Len(file.targets) = 2
    /\ SpecifiedDelay = 200
    /\ EnforcedDelay(ProcessTrace, Len(ProcessTrace)) >= 400

-----------------------------------------------------------------------------
(* C13 *)

\* What main() has started in the current cycle since process() returned.
AfterProcess == SubSeq(trace, Len(ProcessTrace) + 1, Len(trace))

\* The refresh interval in minutes as configured, 5 when it is not.
SpecifiedRefreshMinutes ==
    IF "REFRESH_MINUTES" \in DOMAIN env THEN env.REFRESH_MINUTES ELSE 5

\* A failure-free cycle has ended: the next call of process() is due.
CycleComplete ==
    /\ pc = "process"
    /\ UsersListed
    /\ FailureFree

\* C13: when a failure-free cycle has ended, what main() has done since
\* process() returned is, in the polling loop, exactly 3 * REFRESH_MINUTES
\* presence polls each followed by a delay of 20 seconds, and in the loop
\* without polls one delay of REFRESH_MINUTES minutes; in both the delays
\* add up to REFRESH_MINUTES minutes.
C13_RefreshWait ==
    CycleComplete =>
        LET rest  == AfterProcess
            polls == 3 * SpecifiedRefreshMinutes
        IN  /\ EnforcedDelay(rest, Len(rest)) = SpecifiedRefreshMinutes * 60 * 1000
            /\ IF variant = "index"
               THEN /\ Len(rest) = 2 * polls
                    /\ \A k \in 1..polls :
                          /\ rest[2 * k - 1] = ListPresenceCall(results, accounts)
                          /\ rest[2 * k] = Delay(20 * 1000)
               ELSE rest = << Delay(SpecifiedRefreshMinutes * 60 * 1000) >>

\* The polling loop after a cycle of one minute: three polls, sixty seconds.
C13_Witness ==
    /\ CycleComplete
    /\ variant = "index"
    /\ SpecifiedRefreshMinutes = 1
    /\ Len(accounts) = 2
    /\ Len(SelectSeq(trace, LAMBDA e : e.op = "getPresencesByUserId")) = 3
    /\ EnforcedDelay(AfterProcess, Len(AfterProcess)) = 60000

-----------------------------------------------------------------------------
(* C14: a statement the code does not meet *)

\* An error of loadAccounts: the file is missing or unreadable, the user
\* listing is rejected, or an entry matches no user.
LoadingError(error) ==
    \/ error.text \in {"accounts.json not found.", "SyntaxError",
                       "Account not found for "}
    \/ error = RemoteError("listUsers")

\* Loading has failed in the current cycle.
LoadingFailed ==
    /\ logged # <<>>
    /\ logged[1].by = "process"
    /\ LoadingError(logged[1].error)

\* C14: in a cycle whose Loading has failed no set-presence request and no
\* presence poll is issued.
C14_LoadFailureAbortsCycle ==
    LoadingFailed =>
        \A k \in 1..Len(trace) :
            trace[k].op \notin {"setUserPreferredPresence", "setPresence",
                                "getPresencesByUserId"}

-----------------------------------------------------------------------------
(* C15 *)

ResolvedInThisCycle ==
    /\ UsersListed
    /\ Len(accounts) = Len(file.targets)
    /\ \A k \in 1..Len(accounts) :
          EntryNames(file.targets[k], Account(results, accounts, k))

-----------------------------------------------------------------------------
(* C16 *)

\* The requests of Applying in the current cycle, in the order of their start.
ApplyingCalls == SelectSeq(trace, ApplyingCall)

\* Process() has logged the rejection of a call of the given API.
Rejected(api) ==
    \E n \in 1..Len(logged) : logged[n] = Logged("process", RemoteError(api))

\* C16: the requests of Applying come in pairs, one pair per account in the
\* order of the configuration: first the user-preferred request, then the
\* explicit one for the same account; the explicit request is started only
\* when the user-preferred one has settled, and not at all when the
\* user-preferred one was rejected.
C16_PreferredThenExplicit ==
    LET calls == ApplyingCalls IN
    /\ \A k \in 1..Len(calls) :
          LET a == (k + 1) \div 2 IN
          /\ a <= Len(accounts)
          /\ calls[k].id = Account(results, accounts, a).id
          /\ calls[k].op =
                IF k % 2 = 1 THEN "setUserPreferredPresence" ELSE "setPresence"
    /\ pc = "setPreferredPresence" =>
          /\ idx = (Len(calls) + 1) \div 2
          /\ EntryNames(file.targets[idx], Account(results, accounts, idx))
          /\ Last(trace) = SetPreferredPresenceCall(Account(results, accounts, idx))
    /\ pc = "setPresence" =>
          /\ idx = (Len(calls) + 1) \div 2
          /\ EntryNames(file.targets[idx], Account(results, accounts, idx))
          /\ Len(trace) >= 2
          /\ trace[Len(trace) - 1] =
                SetPreferredPresenceCall(Account(results, accounts, idx))
          /\ trace[Len(trace) - 1] \notin pending
          /\ Last(trace) = SetPresenceCall(Account(results, accounts, idx), clientID)
    /\ Rejected("setUserPreferredPresence") =>
          /\ Len(calls) % 2 = 1
          /\ Last(calls).op = "setUserPreferredPresence"

\* The user-preferred request of the second of two accounts was rejected:
\* three requests, none of them the explicit one for the second account.
C16_Witness ==
    /\ Rejected("setUserPreferredPresence")
    /\ Len(accounts) = 2
    /\ accounts[1] # accounts[2]
    /\ Len(ApplyingCalls) = 3
    /\ ApplyingCalls[2].op = "setPresence"
    /\ ApplyingCalls[3] = SetPreferredPresenceCall(Account(results, accounts, 2))

-----------------------------------------------------------------------------
(* C17 *)

PreferredCalls ==
    SelectSeq(trace, LAMBDA e : e.op = "setUserPreferredPresence")

\* C17: when a request of Applying was rejected for the k-th account, it is
\* the last request of Applying in the cycle: process() is no longer at its
\* accounts, the k-th account is the last one a request was started for, and
\* the accounts after it have none.
C17_NoCallAfterFailure ==
    \A api \in {"setUserPreferredPresence", "setPresence"} :
        Rejected(api) =>
            LET k == Len(PreferredCalls) IN
            /\ pc \notin {"applyDelay", "setPreferredPresence", "setPresence"}
            /\ idx = 0
            /\ k \in 1..Len(accounts)
            /\ Len(SetPresenceCalls) = IF api = "setPresence" THEN k ELSE k - 1
            /\ Len(ApplyingCalls) = Len(PreferredCalls) + Len(SetPresenceCalls)
            /\ Last(ApplyingCalls) =
                  IF api = "setPresence"
                  THEN SetPresenceCall(Account(results, accounts, k), clientID)
                  ELSE SetPreferredPresenceCall(Account(results, accounts, k))

\* The explicit request of the first of two accounts was rejected and the
\* cycle has ended: the second account has had no request.
C17_Witness ==
    /\ Rejected("setPresence")
    /\ pc = "process"
    /\ Len(accounts) = 2
    /\ accounts[1] # accounts[2]
    /\ Len(ApplyingCalls) = 2
    /\ \A k \in 1..Len(trace) :
          ApplyingCall(trace[k]) => trace[k].id = Account(results, accounts, 1).id

-----------------------------------------------------------------------------
(* C18 *)

\* The program is suspended at an await of a remote call or of a delay.
Awaiting ==
    pc \in {"listUsers", "applyDelay", "setPreferredPresence", "setPresence",
            "listPresence", "pollDelay", "backoff", "refreshDelay"}

\* C18: at most one operation is outstanding at any time.  While the program
\* awaits, the one outstanding operation is the one started last, so every
\* operation started before it has settled; between two awaits nothing is
\* outstanding.
C18_OneOutstanding ==
    /\ Cardinality(pending) <= 1
    /\ Awaiting => (trace # <<>> /\ pending = {Last(trace)})
    /\ ~Awaiting => pending = {}

\* The explicit request of the second account is the only operation
\* outstanding: the six operations started before it have settled.
C18_Witness ==
    /\ pc = "setPresence"
    /\ idx = 2
    /\ Len(trace) = 7
    /\ pending = {SetPresenceCall(Account(results, accounts, 2), clientID)}
    /\ \A k \in 1..6 : trace[k] \notin pending

-----------------------------------------------------------------------------
(* C19 *)

\* C19: every user-preferred request carries availability Available and
\* activity Available and nothing else, whatever the status of the account
\* it is addressed to; the request that is awaited is addressed to the
\* account process() is at.
C19_PreferredAlwaysAvailable ==
    /\ \A k \in 1..Len(trace) :
          trace[k].op = "setUserPreferredPresence" =>
              trace[k].options = StatusPair("Available", "Available")
    /\ pc = "setPreferredPresence" =>
          /\ Last(trace).op = "setUserPreferredPresence"
          /\ Last(trace).id = Account(results, accounts, idx).id

\* An account whose status is Busy: its user-preferred request said
\* Available and its explicit request says Busy.
C19_Witness ==
    /\ pc = "setPresence"
    /\ Account(results, accounts, idx).status = <<"B","u","s","y">>
    /\ trace[Len(trace) - 1].op = "setUserPreferredPresence"
    /\ trace[Len(trace) - 1].id = Account(results, accounts, idx).id
    /\ trace[Len(trace) - 1].options.availability = "Available"
    /\ trace[Len(trace) - 1].options.activity = "Available"
    /\ Last(trace).options.availability = "Busy"

-----------------------------------------------------------------------------
(* C20 *)

\* The step is one in which loading or a request of Applying fails.
ProcessFails ==
    \/ pc = "process" /\ logged' # <<>>
    \/ /\ pc \in {"listUsers", "setPreferredPresence", "setPresence"}
       /\ Len(logged') > Len(logged)

=============================================================================
